---------------------------- MODULE Spec2Model ----------------------------
(***************************************************************************)
(* Model of the AI-assisted document synthesis and versioning engine of    *)
(* app.py: the reply parser / markdown normaliser (pure functions over     *)
(* texts), the smart-notion chat handler and the voice-note summary        *)
(* handler running as concurrent requests over one SQLite database.        *)
(*                                                                         *)
(* A text is a sequence of tokens.  A token is one character that the      *)
(* code's patterns look at ("*", "#", "-", " ", newline, ...) or an opaque *)
(* chunk (a word, an HTML tag) that contains none of them.                 *)
(***************************************************************************)
EXTENDS Integers, Sequences, FiniteSets, TLC

\* ------------------------------------------------------------------ bounds
MaxLen == 4          \* longest input text of the text specification
MaxSummaries == 3    \* voice_summary rows the summary specifications create
MaxChats == 2        \* chat_conversation rows the chat specification creates
MaxUrls == 2         \* URLs the storage specification hands out
MaxRecordings == 2   \* voice_recording rows the recording specification creates
MaxTemps == 2        \* temporary files that can exist at once

\* ------------------------------------------------------------------ tokens
NL == "\n"
ESC_NL == "\\n"      \* the two characters backslash, n
FENCE == "[fence]"   \* the three backquotes of a code fence
BULLET == "[bullet]" \* the bullet character U+2022
JSON_TAG == "json"   \* the word after an opening fence
ESC2_NL == "\\\\n"   \* the three characters backslash, backslash, n
QUOTE == "\""
LBRACE == "{"
RBRACE == "}"
COMMA == ","
JSON_ARRAY == "[]"   \* a JSON array: well formed and not an object
K_ACTION == "\"action\":"
K_HTML == "\"html_content\":"
K_EXPL == "\"explanation\":"
ADD_NOTE == "[added, previous content kept] - "
MODIFY_NOTE == "[modified the selected content] - "
REPLACE_NOTE == "[replaced the content as asked] - "
FALLBACK_NOTE == "[content extracted]: "
DECODE_ERR == "[str(e)]"  \* the text of the JSONDecodeError
WARN_DIV == "<div class=\"bg-yellow-50\">configure GEMINI_API_KEY</div>"
ERROR_DIV == "<div class=\"bg-red-50\">str(e)</div>"
REPORT_HTML == "<h2>report</h2>"
WELCOME_HTML == "<div>welcome</div>"
TABLE_HTML == "<div>TABLE</div>"
STRONG_OPEN == "<strong class=\"font-bold text-gray-900\">"
STRONG_CLOSE == "</strong>"
EM_OPEN == "<em class=\"italic\">"
EM_CLOSE == "</em>"
H3_OPEN == "<h3 dir=\"rtl\" class=\"text-lg font-bold text-cyan-900 mb-3 mt-4\">"
H3_CLOSE == "</h3>"
H2_OPEN == "<h2 dir=\"rtl\" class=\"text-xl font-bold text-cyan-950 mb-4 mt-6\">"
H2_CLOSE == "</h2>"
H1_OPEN == "<h1 dir=\"rtl\" class=\"text-2xl font-bold text-cyan-950 mb-4 mt-6\">"
H1_CLOSE == "</h1>"
UL_OPEN == "<ul dir=\"rtl\" class=\"list-disc list-inside space-y-2 mb-4 mr-4\">"
UL_CLOSE == "</ul>"
LI_OPEN == "<li class=\"text-gray-700\">"
LI_CLOSE == "</li>"
P_OPEN == "<p dir=\"rtl\" class=\"text-gray-700 mb-3 leading-relaxed\">"
P_CLOSE == "</p>"

\* ------------------------------------------------------- string primitives
SetMin(S) == CHOOSE x \in S : \A y \in S : x <= y
SetMax(S) == CHOOSE x \in S : \A y \in S : x >= y

\* the characters str.strip() removes
IsSpace(c) == c \in {" ", NL}

\* str.strip()
Strip(s) ==
    LET keep == {i \in 1..Len(s) : ~IsSpace(s[i])}
    IN  IF keep = {} THEN <<>> ELSE SubSeq(s, SetMin(keep), SetMax(keep))

\* str.startswith(p), str.endswith(p)
StartsWith(s, p) == Len(s) >= Len(p) /\ SubSeq(s, 1, Len(p)) = p
EndsWith(s, p) == Len(s) >= Len(p) /\ SubSeq(s, Len(s) - Len(p) + 1, Len(s)) = p

\* s[n:]  and  s[:-n]
DropFirst(s, n) == SubSeq(s, n + 1, Len(s))
DropLast(s, n) == SubSeq(s, 1, Len(s) - n)

\* str.split('\n'): always at least one line
RECURSIVE SplitLines(_)
SplitLines(s) ==
    LET nls == {i \in 1..Len(s) : s[i] = NL}
    IN  IF nls = {} THEN <<s>>
        ELSE LET i == SetMin(nls)
             IN  <<SubSeq(s, 1, i - 1)>> \o SplitLines(SubSeq(s, i + 1, Len(s)))

\* '\n'.join(lines)
RECURSIVE JoinLines(_)
JoinLines(ls) ==
    IF Len(ls) = 0 THEN <<>>
    ELSE IF Len(ls) = 1 THEN ls[1]
    ELSE ls[1] \o <<NL>> \o JoinLines(Tail(ls))

\* str.replace(a, b) for one-token a
ReplaceTok(s, a, b) == [i \in 1..Len(s) |-> IF s[i] = a THEN b ELSE s[i]]

\* ------------------------------------------------ convert_markdown_to_html
\* re.sub(r'\*\*(.*?)\*\*', <strong>\1</strong>): leftmost match, lazy
\* group, '.' never crosses a newline
RECURSIVE SubBoldFrom(_, _)
SubBoldFrom(s, i) ==
    IF i > Len(s) THEN <<>>
    ELSE LET ends == {j \in (i + 2)..(Len(s) - 1) :
                         /\ s[j] = "*" /\ s[j + 1] = "*"
                         /\ \A k \in (i + 2)..(j - 1) : s[k] # NL}
         IN  IF i + 1 <= Len(s) /\ s[i] = "*" /\ s[i + 1] = "*" /\ ends # {}
             THEN LET j == SetMin(ends)
                  IN  <<STRONG_OPEN>> \o SubSeq(s, i + 2, j - 1) \o <<STRONG_CLOSE>>
                          \o SubBoldFrom(s, j + 2)
             ELSE <<s[i]>> \o SubBoldFrom(s, i + 1)

SubBold(s) == SubBoldFrom(s, 1)

\* re.sub(r'\*(.*?)\*', <em>\1</em>)
RECURSIVE SubItalicFrom(_, _)
SubItalicFrom(s, i) ==
    IF i > Len(s) THEN <<>>
    ELSE LET ends == {j \in (i + 1)..Len(s) :
                         /\ s[j] = "*"
                         /\ \A k \in (i + 1)..(j - 1) : s[k] # NL}
         IN  IF s[i] = "*" /\ ends # {}
             THEN LET j == SetMin(ends)
                  IN  <<EM_OPEN>> \o SubSeq(s, i + 1, j - 1) \o <<EM_CLOSE>>
                          \o SubItalicFrom(s, j + 1)
             ELSE <<s[i]>> \o SubItalicFrom(s, i + 1)

SubItalic(s) == SubItalicFrom(s, 1)

\* one line under re.sub(r'^#{n} (.*?)$', open \1 close, flags=MULTILINE)
HeadingLine(line, n, open, close) ==
    IF /\ Len(line) >= n + 1
       /\ \A k \in 1..n : line[k] = "#"
       /\ line[n + 1] = " "
    THEN <<open>> \o SubSeq(line, n + 2, Len(line)) \o <<close>>
    ELSE line

SubHeading(s, n, open, close) ==
    LET ls == SplitLines(s)
    IN  JoinLines([i \in 1..Len(ls) |-> HeadingLine(ls[i], n, open, close)])

\* stripped.startswith('- ') or stripped.startswith(bullet + ' ')
IsBullet(stripped) ==
    StartsWith(stripped, <<"-", " ">>) \/ StartsWith(stripped, <<BULLET, " ">>)

\* the loop over lines: in_list is the loop's flag
RECURSIVE BulletLoop(_, _, _)
BulletLoop(lines, i, in_list) ==
    IF i > Len(lines)
    THEN IF in_list THEN <<<<UL_CLOSE>>>> ELSE <<>>
    ELSE LET line == lines[i]
             stripped == Strip(line)
         IN  IF IsBullet(stripped)
             THEN (IF in_list THEN <<>> ELSE <<<<UL_OPEN>>>>)
                      \o <<<<LI_OPEN>> \o Strip(DropFirst(stripped, 2)) \o <<LI_CLOSE>>>>
                      \o BulletLoop(lines, i + 1, TRUE)
             ELSE (IF in_list THEN <<<<UL_CLOSE>>>> ELSE <<>>)
                      \o (IF stripped # <<>>
                          THEN <<<<P_OPEN>> \o line \o <<P_CLOSE>>>>
                          ELSE <<line>>)
                      \o BulletLoop(lines, i + 1, FALSE)

convert_markdown_to_html(text) ==
    IF text = <<>> THEN text
    ELSE LET t1 == SubBold(text)
             t2 == SubItalic(t1)
             t3 == SubHeading(t2, 3, H3_OPEN, H3_CLOSE)
             t4 == SubHeading(t3, 2, H2_OPEN, H2_CLOSE)
             t5 == SubHeading(t4, 1, H1_OPEN, H1_CLOSE)
         IN  JoinLines(BulletLoop(SplitLines(t5), 1, FALSE))

\* ---------------------------------------------------------------- json.loads
\* A JSON text is read token by token.  An object is LBRACE, fields separated
\* by COMMA, RBRACE; a field is a key token and a string QUOTE ... QUOTE;
\* whitespace may stand between them.  A raw newline inside a string is a
\* control character and makes the text invalid; the escape ESC_NL decodes to
\* a newline and ESC2_NL decodes to the two characters backslash, n.
JsonKeys == {K_ACTION, K_HTML, K_EXPL}

JsonUnescape(s) ==
    [i \in 1..Len(s) |-> IF s[i] = ESC_NL THEN NL
                         ELSE IF s[i] = ESC2_NL THEN ESC_NL ELSE s[i]]

\* first index >= i that holds no whitespace (Len(c) + 1 when there is none)
SkipWs(c, i) ==
    LET rest == {j \in i..Len(c) : ~IsSpace(c[j])}
    IN  IF rest = {} THEN Len(c) + 1 ELSE SetMin(rest)

JsonError == [ok |-> FALSE, is_object |-> FALSE,
              action |-> <<>>, html_content |-> <<>>, explanation |-> <<>>]

\* response_data.get(key, default): the defaults of the three fields
JsonEmptyObject == [ok |-> TRUE, is_object |-> TRUE,
                    action |-> <<"add">>, html_content |-> <<>>, explanation |-> <<>>]

SetField(obj, key, val) ==
    IF key = K_ACTION THEN [obj EXCEPT !.action = val]
    ELSE IF key = K_HTML THEN [obj EXCEPT !.html_content = val]
    ELSE [obj EXCEPT !.explanation = val]

\* c[i] is where a field or the closing brace is expected; first says no field
\* was read yet
RECURSIVE ParseFields(_, _, _, _)
ParseFields(c, i0, obj, first) ==
    LET i == SkipWs(c, i0)
    IN  IF i > Len(c) THEN JsonError
        ELSE IF c[i] = RBRACE
        THEN IF SkipWs(c, i + 1) > Len(c) THEN obj ELSE JsonError
        ELSE LET k == IF first THEN i
                      ELSE IF c[i] = COMMA THEN SkipWs(c, i + 1) ELSE Len(c) + 1
                 q == SkipWs(c, k + 1)
                 closes == {j \in (q + 1)..Len(c) : c[j] = QUOTE}
             IN  IF k > Len(c) \/ c[k] \notin JsonKeys THEN JsonError
                 ELSE IF q > Len(c) \/ c[q] # QUOTE \/ closes = {} THEN JsonError
                 ELSE LET e == SetMin(closes)
                          raw == SubSeq(c, q + 1, e - 1)
                      IN  IF \E j \in 1..Len(raw) : raw[j] = NL THEN JsonError
                          ELSE ParseFields(c, e + 1, SetField(obj, c[k], JsonUnescape(raw)), FALSE)

json_loads(c) ==
    LET i == SkipWs(c, 1)
    IN  IF i > Len(c) THEN JsonError
        ELSE IF c[i] = JSON_ARRAY
        THEN IF SkipWs(c, i + 1) > Len(c)
             THEN [JsonEmptyObject EXCEPT !.is_object = FALSE] ELSE JsonError
        ELSE IF c[i] = QUOTE
        THEN LET closes == {j \in (i + 1)..Len(c) : c[j] = QUOTE}
             IN  IF closes = {} THEN JsonError
                 ELSE LET e == SetMin(closes)
                      IN  IF SkipWs(c, e + 1) > Len(c)
                             /\ \A j \in (i + 1)..(e - 1) : c[j] # NL
                          THEN [JsonEmptyObject EXCEPT !.is_object = FALSE]
                          ELSE JsonError
        ELSE IF c[i] = LBRACE THEN ParseFields(c, i + 1, JsonEmptyObject, TRUE)
        ELSE JsonError

\* ---------------------------------------------- extract_html_from_response
\* re.sub(r'\n\s*\n\s*\n+', '\n\n', s): a whitespace run that starts with a
\* newline and holds three or more newlines is cut, up to its last newline,
\* to two newlines
RECURSIVE CollapseFrom(_, _)
CollapseFrom(s, i) ==
    IF i > Len(s) THEN <<>>
    ELSE LET runEnd == SkipWs(s, i) - 1
             nls == {j \in i..runEnd : s[j] = NL}
         IN  IF s[i] = NL /\ Cardinality(nls) >= 3
             THEN <<NL, NL>> \o CollapseFrom(s, SetMax(nls) + 1)
             ELSE <<s[i]>> \o CollapseFrom(s, i + 1)

CollapseBlankLines(s) == CollapseFrom(s, 1)

\* re.sub(r'```json|```', '', s)
RECURSIVE RemoveFences(_)
RemoveFences(s) ==
    IF s = <<>> THEN <<>>
    ELSE IF StartsWith(s, <<FENCE, JSON_TAG>>) THEN RemoveFences(DropFirst(s, 2))
    ELSE IF s[1] = FENCE THEN RemoveFences(DropFirst(s, 1))
    ELSE <<s[1]>> \o RemoveFences(DropFirst(s, 1))

\* the three startswith / endswith tests, then strip
StripFences(ai_response) ==
    LET c0 == Strip(ai_response)
        c1 == IF StartsWith(c0, <<FENCE, JSON_TAG>>) THEN DropFirst(c0, 2) ELSE c0
        c2 == IF StartsWith(c1, <<FENCE>>) THEN DropFirst(c1, 1) ELSE c1
        c3 == IF EndsWith(c2, <<FENCE>>) THEN DropLast(c2, 1) ELSE c2
    IN  Strip(c3)

\* the body of "if html_content:"
CleanHtml(html_content) ==
    IF html_content = <<>> THEN html_content
    ELSE convert_markdown_to_html(
             Strip(CollapseBlankLines(ReplaceTok(html_content, ESC_NL, NL))))

EnhanceExplanation(action, explanation) ==
    IF explanation = <<>> THEN explanation
    ELSE IF action = <<"add">> THEN <<ADD_NOTE>> \o explanation
    ELSE IF action = <<"modify">> THEN <<MODIFY_NOTE>> \o explanation
    ELSE IF action = <<"replace">> THEN <<REPLACE_NOTE>> \o explanation
    ELSE explanation

\* the except branch: the raw reply without its fences, converted
ExtractFallback_NoConvert(ai_response) ==
    [raised |-> FALSE,
     html_content |-> Strip(RemoveFences(ai_response)),
     explanation |-> <<FALLBACK_NOTE, DECODE_ERR>>]

ExtractFallback(ai_response) ==
    [raised |-> FALSE,
     html_content |-> convert_markdown_to_html(Strip(RemoveFences(ai_response))),
     explanation |-> <<FALLBACK_NOTE, DECODE_ERR>>]

\* raised: an exception other than JSONDecodeError left the function
\* (response_data.get on a value that is not a dict)
extract_html_from_response(ai_response) ==
    LET response_data == json_loads(StripFences(ai_response))
    IN  IF ~response_data.ok THEN ExtractFallback(ai_response)
        ELSE IF ~response_data.is_object
        THEN [raised |-> TRUE, html_content |-> <<>>, explanation |-> <<>>]
        ELSE [raised |-> FALSE,
              html_content |-> CleanHtml(response_data.html_content),
              explanation |-> EnhanceExplanation(response_data.action,
                                                 response_data.explanation)]

\* ================================================================== state
VARIABLES
    tx_reply,       \* text specification: the raw reply / text handed in
    tx_out,         \* text specification: the text last returned
    tx_prev,        \* text specification: the argument of the last call
    tx_op,          \* text specification: "none", "extract" or "normalize"
    tx_calls,       \* text specification: calls of convert_markdown_to_html so far
    gemini_enabled, \* GEMINI_ENABLED, fixed when the process starts
    notions,        \* table smart_notion (committed rows)
    chats,          \* table chat_conversation (committed rows, oldest first)
    voice_notes,    \* table voice_note (committed rows)
    summaries,      \* table voice_summary (committed rows; a row's id is its index)
    writer,         \* the request holding the SQLite write lock, 0 when free
    pending,        \* the writer's uncommitted image of the tables
    req,            \* the request each worker thread is serving
    gm_available,   \* the models genai.list_models() offers for generateContent now
    gm_list_fails,  \* genai.list_models() raises now
    gm,             \* model selection: the generation request under way
    st_local,       \* LocalStorageService: the files under base_path, by name
    st_s3,          \* S3StorageService: the objects under the folder, by name
    st_last,        \* the last storage operation and what each backend returned
    st_urls,        \* the URLs S3StorageService.get_file_url has returned
    env_creds,      \* AWS_ACCESS_KEY_ID and AWS_SECRET_ACCESS_KEY are both set
    storage_service,\* the global of app.py: "None", "local" or "s3"
    sel,            \* each worker thread's call of get_storage_service
    sel_first,      \* the backend the first finished call returned
    rec_env,        \* the backend in use and ELEVENLABS_ENABLED, fixed at start
    recordings,     \* table voice_recording (committed rows; a row's id is its index)
    vn_updated,     \* voice_note.updated_at, as the number of writes to it
    rec_objects,    \* the recordings the backend in use holds, by key
    tmp_files,      \* the temporary files on the local disk
    tr              \* the upload or transcript request each worker is serving

textVars == <<tx_reply, tx_out, tx_prev, tx_op, tx_calls>>
dbVars == <<notions, chats, voice_notes, summaries, writer, pending>>
gmVars == <<gm_available, gm_list_fails, gm>>
stVars == <<st_local, st_s3, st_last, st_urls>>
selVars == <<env_creds, storage_service, sel, sel_first>>
recVars == <<rec_env, recordings, vn_updated, rec_objects, tmp_files, tr>>
vars == <<tx_reply, tx_out, tx_prev, tx_op, tx_calls, gemini_enabled,
          notions, chats, voice_notes, summaries, writer, pending, req,
          gm_available, gm_list_fails, gm,
          st_local, st_s3, st_last, st_urls,
          env_creds, storage_service, sel, sel_first,
          rec_env, recordings, vn_updated, rec_objects, tmp_files, tr>>

\* ======================================================= text specification
\* The characters the patterns of convert_markdown_to_html and
\* extract_html_from_response tell apart, and one ordinary letter.
Alphabet == {"*", "#", "-", BULLET, " ", NL, ESC_NL, "a"}

Texts == UNION {[1..n -> Alphabet] : n \in 0..MaxLen}

\* How a text reaches extract_html_from_response: as the whole reply, or as
\* the html_content of a structured reply, bare or inside a code fence.
Wrappings == {"plain", "fenced", "object", "fenced_object"}

JsonObjectText(action, html, explanation) ==
    <<LBRACE, K_ACTION, QUOTE>> \o action \o <<QUOTE, COMMA, " ", K_HTML, QUOTE>>
        \o html \o <<QUOTE, COMMA, " ", K_EXPL, QUOTE>> \o explanation
        \o <<QUOTE, RBRACE>>

Fenced(t) == <<FENCE, JSON_TAG, NL>> \o t \o <<NL, FENCE>>

Wrap(w, t) ==
    IF w = "plain" THEN t
    ELSE IF w = "fenced" THEN Fenced(t)
    ELSE IF w = "object" THEN JsonObjectText(<<"add">>, t, <<"done">>)
    ELSE Fenced(JsonObjectText(<<"add">>, t, <<"done">>))

\* replies that are valid JSON and no object: an array, bare or fenced, and a
\* string
NonObjectReplies ==
    {<<JSON_ARRAY>>, Fenced(<<JSON_ARRAY>>), <<QUOTE, "a", QUOTE>>}

TextInit ==
    /\ tx_reply \in {Wrap(w, t) : w \in Wrappings, t \in Texts} \cup NonObjectReplies
    /\ tx_out = <<>>
    /\ tx_prev = <<>>
    /\ tx_op = "none"
    /\ tx_calls = 0

\* html_content, explanation = extract_html_from_response(ai_response)
TextExtract ==
    /\ tx_op = "none"
    /\ ~extract_html_from_response(tx_reply).raised
    /\ tx_out' = extract_html_from_response(tx_reply).html_content
    /\ tx_prev' = tx_reply
    /\ tx_op' = "extract"
    /\ UNCHANGED <<tx_reply, tx_calls, gemini_enabled, dbVars, req, gmVars, stVars, selVars, recVars>>

\* the same call when response_data.get raises AttributeError: no except
\* clause of the function catches it and the caller gets the exception
TextExtractRaises ==
    /\ tx_op = "none"
    /\ extract_html_from_response(tx_reply).raised
    /\ tx_out' = <<>>
    /\ tx_prev' = tx_reply
    /\ tx_op' = "raised"
    /\ UNCHANGED <<tx_reply, tx_calls, gemini_enabled, dbVars, req, gmVars, stVars, selVars, recVars>>

\* text = convert_markdown_to_html(text), on the input and then on its result
TextNormalize ==
    /\ tx_op \in {"none", "normalize"}
    /\ tx_calls < 2
    /\ LET arg == IF tx_calls = 0 THEN tx_reply ELSE tx_out
       IN  /\ tx_out' = convert_markdown_to_html(arg)
           /\ tx_prev' = arg
    /\ tx_op' = "normalize"
    /\ tx_calls' = tx_calls + 1
    /\ UNCHANGED <<tx_reply, gemini_enabled, dbVars, req, gmVars, stVars, selVars, recVars>>

\* ============================================================ the database
\* SQLite, through SQLAlchemy's default driver: a SELECT reads the committed
\* tables and takes no lasting lock; the first UPDATE or INSERT of a session
\* begins a transaction and takes the one write lock; the writes stay private
\* to the session until COMMIT publishes them all at once; a session that
\* cannot get the write lock fails with OperationalError (database is locked).
Workers == {1, 2}        \* two worker threads (app.run threaded=True)
NoteIds == {1, 2}
NotionIds == {1, 2}
MissingId == 9           \* an id no row has

NoImage == [notions |-> <<>>, chats |-> <<>>, summaries |-> <<>>]
Image == [notions |-> notions, chats |-> chats, summaries |-> summaries]

\* what the client got: the HTTP status and the body's "success"
NoResp == [status |-> 0, success |-> FALSE]
Resp(status, success) == [status |-> status, success |-> success]

\* a worker's request: where the handler stands (pc), its locals, and the
\* response of the request it served last.  base is notion.content_html as
\* loaded by the lookup.
IdleReq == [pc |-> "idle", target |-> 0, message |-> <<>>,
            ai_response |-> <<>>, base |-> <<>>,
            html_content |-> <<>>, explanation |-> <<>>, next_version |-> 0,
            context |-> <<>>, resp |-> NoResp]

\* the request is over: its locals go, its response stays
Finished(resp) == [IdleReq EXCEPT !.resp = resp]

\* ------------------------------------------------------ get_gemini_response
JsonEscape(s) ==
    [i \in 1..Len(s) |-> IF s[i] = NL THEN ESC_NL
                         ELSE IF s[i] = ESC_NL THEN ESC2_NL ELSE s[i]]

\* json.dumps of the static body returned when GEMINI_ENABLED is false
DisabledReply ==
    JsonObjectText(<<"error">>, <<WARN_DIV>>, <<"gemini key required">>)

\* json.dumps of the body built in "except Exception as e"
ErrorReply_Plain == <<"connection error: str(e)">>

ErrorReply ==
    JsonObjectText(<<"error">>, <<ERROR_DIV>>, <<"connection error: str(e)">>)

\* outcome: what the generative model did with the prompt: it raised, or it
\* returned outcome.text as response.text
get_gemini_response(outcome) ==
    IF ~gemini_enabled THEN DisabledReply
    ELSE IF outcome.raised THEN ErrorReply
    ELSE outcome.text

Raised == [raised |-> TRUE, text |-> <<>>]
Returned(t) == [raised |-> FALSE, text |-> t]

\* ---------------------------------------------- generate_voice_note_summary
\* what the generative model does with the summary prompt: it fails, it
\* returns a fenced structured reply, or a structured reply with empty
\* html_content
SummaryOutcomes ==
    {Raised,
     Returned(Fenced(JsonObjectText(<<"add">>, <<REPORT_HTML>>, <<"report made">>))),
     Returned(JsonObjectText(<<"add">>, <<>>, <<"nothing">>))}

\* VoiceNote.query.filter_by(id=note_id, deleted_at=None).first_or_404(), and
\* in "except Exception" the same query without deleted_at: TRUE when a row
\* is returned, FALSE when NotFound leaves the inner try
VoiceNoteFound(note_id) ==
    IF note_id \in DOMAIN voice_notes /\ ~voice_notes[note_id].deleted THEN TRUE
    ELSE note_id \in DOMAIN voice_notes

SummaryRowsOf(rows, note_id) == {i \in 1..Len(rows) : rows[i].voice_note_id = note_id}

\* latest_summary = ...order_by(summary_version.desc()).first();
\* next_version = (latest_summary.summary_version + 1) if latest_summary else 1
NextVersion_Constant(rows, note_id) == 1

NextVersion(rows, note_id) ==
    LET vs == {rows[i].summary_version : i \in SummaryRowsOf(rows, note_id)}
    IN  IF vs = {} THEN 1 ELSE SetMax(vs) + 1

\* VoiceSummary.query.filter_by(voice_note_id=note_id, is_current=True)
\*     .update({'is_current': False})
FlipCurrent_Nothing(rows, note_id) == rows

FlipCurrent_Toggle(rows, note_id) ==
    [i \in 1..Len(rows) |->
        IF rows[i].voice_note_id = note_id
        THEN [rows[i] EXCEPT !.is_current = ~rows[i].is_current] ELSE rows[i]]

FlipCurrent(rows, note_id) ==
    [i \in 1..Len(rows) |->
        IF rows[i].voice_note_id = note_id /\ rows[i].is_current
        THEN [rows[i] EXCEPT !.is_current = FALSE] ELSE rows[i]]

NewSummary(q) ==
    [voice_note_id |-> q.target, summary_html |-> q.html_content,
     summary_version |-> q.next_version, created_by |-> q.message,
     is_current |-> TRUE]

SummaryInFlight == Cardinality({r \in Workers : req[r].pc # "idle"})

\* the request arrives; the voice note is looked up
SumLookup(r, note_id, created_by) ==
    /\ req[r].pc = "idle"
    /\ Len(summaries) + SummaryInFlight < MaxSummaries
    /\ LET q == [IdleReq EXCEPT !.target = note_id, !.message = created_by]
       IN  IF VoiceNoteFound(note_id)
           THEN req' = [req EXCEPT ![r] = [q EXCEPT !.pc = "sum_generate"]]
           ELSE \* NotFound is caught by the outer "except Exception"
                req' = [req EXCEPT ![r] = Finished(Resp(500, FALSE))]
    /\ UNCHANGED <<textVars, gemini_enabled, gmVars, stVars, selVars, recVars, dbVars>>

\* get_gemini_response, extract_html_from_response and, with html_content,
\* the SELECT of the latest summary
SumGenerate(r, outcome) ==
    /\ req[r].pc = "sum_generate"
    /\ LET q == req[r]
           ai == get_gemini_response(outcome)
           ex == extract_html_from_response(ai)
       IN  IF ex.raised \/ ex.html_content = <<>>
           THEN req' = [req EXCEPT ![r] = Finished(Resp(500, FALSE))]
           ELSE req' = [req EXCEPT ![r] =
                    [q EXCEPT !.pc = "sum_flip",
                              !.html_content = ex.html_content,
                              !.next_version = NextVersion(summaries, q.target)]]
    /\ UNCHANGED <<textVars, gemini_enabled, gmVars, stVars, selVars, recVars, dbVars>>

\* the UPDATE begins the transaction and takes the write lock
SumFlip(r) ==
    /\ req[r].pc = "sum_flip"
    /\ writer = 0
    /\ writer' = r
    /\ pending' = [Image EXCEPT !.summaries = FlipCurrent(summaries, req[r].target)]
    /\ req' = [req EXCEPT ![r].pc = "sum_commit"]
    /\ UNCHANGED <<textVars, gemini_enabled, gmVars, stVars, selVars, recVars, notions, chats, voice_notes, summaries>>

\* the UPDATE finds the database locked: OperationalError, rollback, status 500
SumFlipBusy(r) ==
    /\ req[r].pc = "sum_flip"
    /\ writer \notin {0, r}
    /\ req' = [req EXCEPT ![r] = Finished(Resp(500, FALSE))]
    /\ UNCHANGED <<textVars, gemini_enabled, gmVars, stVars, selVars, recVars, dbVars>>

\* db.session.add(new_summary); db.session.commit()
SumCommit(r) ==
    /\ req[r].pc = "sum_commit"
    /\ writer = r
    /\ summaries' = Append(pending.summaries, NewSummary(req[r]))
    /\ writer' = 0
    /\ pending' = NoImage
    /\ req' = [req EXCEPT ![r] = Finished(Resp(200, TRUE))]
    /\ UNCHANGED <<textVars, gemini_enabled, gmVars, stVars, selVars, recVars, notions, chats, voice_notes>>

\* delete_voice_note: the live row gets deleted_at, in one short transaction
DeleteVoiceNote(note_id) ==
    /\ writer = 0
    /\ note_id \in DOMAIN voice_notes
    /\ ~voice_notes[note_id].deleted
    /\ voice_notes' = [voice_notes EXCEPT ![note_id].deleted = TRUE]
    /\ UNCHANGED <<textVars, gemini_enabled, gmVars, stVars, selVars, recVars, notions, chats, summaries, writer, pending, req>>

\* -------------------------------------------------------- smart_notion_chat
\* has_deleted_at_column(): the probe SELECT succeeds on the schema of the
\* SmartNotion class
has_deleted_at_column == TRUE

\* the lookup of smart_notion_chat: inside try, first_or_404() on the live
\* rows (deleted_at=None); NotFound is an Exception, so "except Exception"
\* runs the same query without deleted_at.  TRUE when a row is returned, FALSE
\* when NotFound reaches the client.
NotionFound(notion_id) ==
    IF has_deleted_at_column /\ notion_id \in DOMAIN notions /\ ~notions[notion_id].deleted
    THEN TRUE
    ELSE notion_id \in DOMAIN notions

\* the instructions a client sends; the empty one stands for a missing message
Instructions == {<<"add a table">>, <<>>}

\* what the generative model does with an instruction and the context: it
\* fails; it follows the prompt and returns the whole current content plus
\* the new part (add), fenced; it returns only the new part (replace); it
\* returns a structured reply with empty html_content; it returns markdown
\* text that is no JSON; it returns a JSON array
ChatOutcomes(base, message) ==
    {Raised,
     Returned(Fenced(JsonObjectText(<<"add">>, JsonEscape(base) \o <<TABLE_HTML>>,
                                    <<"table added">>))),
     Returned(JsonObjectText(<<"replace">>, <<TABLE_HTML>>, <<"replaced">>)),
     Returned(JsonObjectText(<<"add">>, <<>>, <<"nothing">>)),
     Returned(<<"*", "note", "*">>),
     Returned(<<JSON_ARRAY>>)}

NewConversation(q) ==
    [notion_id |-> q.target, user_message |-> q.message, ai_response |-> q.explanation]

\* what the flush of db.session.commit() writes: the UPDATE of the notion row
\* and the INSERT of the conversation row
ChatWrites_NoTurn(img, q) ==
    [img EXCEPT !.notions[q.target].content_html = q.html_content]

ChatWrites(img, q) ==
    [img EXCEPT !.notions[q.target].content_html = q.html_content,
                !.chats = Append(img.chats, NewConversation(q))]

ChatInFlight == Cardinality({r \in Workers : req[r].pc # "idle"})

\* the rows the requests of the specification added (MaxChats caps them);
\* the rows of earlier sessions carry other messages
NewChats == Cardinality({i \in 1..Len(chats) : chats[i].user_message \in Instructions})

\* .limit(5) of the query for the recent conversations
HISTORY_LIMIT == 5

RECURSIVE Reversed(_)
Reversed(s) == IF s = <<>> THEN <<>> ELSE Append(Reversed(Tail(s)), Head(s))

\* ChatConversation.query.filter_by(notion_id=notion_id)
\*     .order_by(ChatConversation.created_at.desc()).limit(5).all()
\* (the table is kept oldest first: created_at grows with the index)
recent_conversations_Oldest(rows, notion_id) ==
    LET mine == SelectSeq(rows, LAMBDA c : c.notion_id = notion_id)
    IN  Reversed(SubSeq(mine, 1, IF Len(mine) < HISTORY_LIMIT THEN Len(mine)
                                 ELSE HISTORY_LIMIT))

recent_conversations(rows, notion_id) ==
    LET mine == Reversed(SelectSeq(rows, LAMBDA c : c.notion_id = notion_id))
    IN  SubSeq(mine, 1, IF Len(mine) < HISTORY_LIMIT THEN Len(mine)
                        ELSE HISTORY_LIMIT)

\* the lines of a turn in the context
TurnLines(conv) ==
    <<"user: ">> \o conv.user_message \o <<NL, "assistant: ">> \o conv.ai_response

RECURSIVE JoinTurns(_)
JoinTurns(convs) ==
    IF convs = <<>> THEN <<>>
    ELSE <<NL>> \o TurnLines(Head(convs)) \o JoinTurns(Tail(convs))

\* context = "\n".join(context_parts): the current content, then, when there
\* are recent conversations, a heading and "for conv in
\* reversed(recent_conversations)" the two lines of each
ChatContext(content_html, recent) ==
    <<"current content:", NL>> \o content_html
        \o (IF recent = <<>> THEN <<>>
            ELSE <<NL, NL, "recent conversation:">> \o JoinTurns(Reversed(recent)))

\* the request arrives: the notion is looked up, then the message is read
ChatLookup(r, notion_id, message) ==
    /\ req[r].pc = "idle"
    /\ NewChats + ChatInFlight < MaxChats
    /\ IF ~NotionFound(notion_id)
       THEN req' = [req EXCEPT ![r] = Finished(Resp(404, FALSE))]
       ELSE IF message = <<>>
       THEN req' = [req EXCEPT ![r] = Finished(Resp(400, FALSE))]
       ELSE req' = [req EXCEPT ![r] =
                [IdleReq EXCEPT !.pc = "chat_generate", !.target = notion_id,
                                !.message = message,
                                !.base = notions[notion_id].content_html,
                                !.context = ChatContext(notions[notion_id].content_html,
                                               recent_conversations(chats, notion_id))]]
    /\ UNCHANGED <<textVars, gemini_enabled, gmVars, stVars, selVars, recVars, dbVars>>

\* get_gemini_response and extract_html_from_response; without html_content
\* the handler returns at once, with 'success': True
ChatGenerate(r, outcome) ==
    /\ req[r].pc = "chat_generate"
    /\ LET q == req[r]
           ai == get_gemini_response(outcome)
           ex == extract_html_from_response(ai)
       IN  IF ex.raised
           THEN req' = [req EXCEPT ![r] = Finished(Resp(500, FALSE))]
           ELSE IF ex.html_content = <<>>
           THEN req' = [req EXCEPT ![r] = Finished(Resp(200, TRUE))]
           ELSE req' = [req EXCEPT ![r] =
                    [q EXCEPT !.pc = "chat_flush", !.ai_response = ai,
                              !.html_content = ex.html_content,
                              !.explanation = ex.explanation]]
    /\ UNCHANGED <<textVars, gemini_enabled, gmVars, stVars, selVars, recVars, dbVars>>

\* db.session.commit(), first half: the flush begins the transaction, takes
\* the write lock and writes
ChatFlush(r) ==
    /\ req[r].pc = "chat_flush"
    /\ writer = 0
    /\ writer' = r
    /\ pending' = ChatWrites(Image, req[r])
    /\ req' = [req EXCEPT ![r].pc = "chat_commit"]
    /\ UNCHANGED <<textVars, gemini_enabled, gmVars, stVars, selVars, recVars, notions, chats, voice_notes, summaries>>

\* the flush finds the database locked: OperationalError, status 500
ChatFlushBusy(r) ==
    /\ req[r].pc = "chat_flush"
    /\ writer \notin {0, r}
    /\ req' = [req EXCEPT ![r] = Finished(Resp(500, FALSE))]
    /\ UNCHANGED <<textVars, gemini_enabled, gmVars, stVars, selVars, recVars, dbVars>>

\* db.session.commit(), second half: COMMIT publishes the writes; the handler
\* returns 'success': True
ChatCommit(r) ==
    /\ req[r].pc = "chat_commit"
    /\ writer = r
    /\ notions' = pending.notions
    /\ chats' = pending.chats
    /\ writer' = 0
    /\ pending' = NoImage
    /\ req' = [req EXCEPT ![r] = Finished(Resp(200, TRUE))]
    /\ UNCHANGED <<textVars, gemini_enabled, gmVars, stVars, selVars, recVars, voice_notes, summaries>>

\* smart_notion(): the list view, the rows with deleted_at IS NULL
smart_notion == {n \in DOMAIN notions : ~notions[n].deleted}

\* edit_smart_notion(notion_id): the same lookup as the chat's (first_or_404
\* on the live rows inside try, the unfiltered query in "except Exception"),
\* then the page with the notion and its conversations
edit_smart_notion(r, notion_id) ==
    /\ req[r].pc = "idle"
    /\ req' = [req EXCEPT ![r] =
                  IF NotionFound(notion_id) THEN Finished(Resp(200, TRUE))
                  ELSE Finished(Resp(404, FALSE))]
    /\ UNCHANGED <<textVars, gemini_enabled, gmVars, stVars, selVars, recVars, dbVars>>

\* delete_smart_notion: the live row gets deleted_at, in one short transaction
DeleteNotion(notion_id) ==
    /\ writer = 0
    /\ notion_id \in DOMAIN notions
    /\ ~notions[notion_id].deleted
    /\ notions' = [notions EXCEPT ![notion_id].deleted = TRUE]
    /\ UNCHANGED <<textVars, gemini_enabled, gmVars, stVars, selVars, recVars, chats, voice_notes, summaries, writer, pending, req>>

\* ========================================================= model selection
\* the generateContent models the backend can offer, by name; OTHER_MODEL is
\* one that the preferred list does not hold; NoModel is Python's None (and
\* the empty string: both are false)
FLASH_25 == "models/gemini-2.5-flash"
PRO_25 == "models/gemini-2.5-pro"
PRO_15 == "models/gemini-1.5-pro"
OTHER_MODEL == "models/other"
UNKNOWN_MODEL == "models/unknown"
NoModel == "None"

Models == {FLASH_25, PRO_25, PRO_15, OTHER_MODEL}

preferred_models ==
    <<FLASH_25, PRO_25, "models/gemini-2.5-pro-preview-06-05",
      "models/gemini-2.0-flash-exp", PRO_15, "models/gemini-1.5-flash",
      "models/gemini-pro", "models/gemini-1.0-pro">>

allowed_models == {FLASH_25, PRO_25}

\* get_best_gemini_model(): the first preferred model that is available,
\* else available_models[0] (here OTHER_MODEL, the one model outside the
\* preferred list), else None; 'models/gemini-1.5-pro' when list_models raises
get_best_gemini_model ==
    IF ~gemini_enabled THEN NoModel
    ELSE IF gm_list_fails THEN PRO_15
    ELSE LET hits == {i \in 1..Len(preferred_models) :
                         preferred_models[i] \in gm_available}
         IN  IF hits # {} THEN preferred_models[SetMin(hits)]
             ELSE IF gm_available # {} THEN CHOOSE m \in gm_available : TRUE
             ELSE NoModel

\* is_valid_gemini_model(model_name)
is_valid_gemini_model(model_name) ==
    IF ~gemini_enabled \/ model_name = NoModel THEN FALSE
    ELSE IF model_name \notin allowed_models THEN FALSE
    ELSE IF gm_list_fails THEN FALSE
    ELSE model_name \in gm_available

\* the model a caller asks for: none, the two allowed ones, one that exists
\* and is not allowed, one that does not exist
PreferredInputs == {NoModel, FLASH_25, PRO_25, PRO_15, UNKNOWN_MODEL}

\* what model.generate_content does: it raises, or it returns a reply
CallOutcomes ==
    {Raised, Returned(JsonObjectText(<<"add">>, <<TABLE_HTML>>, <<"done">>))}

\* preferred: the caller's model; chosen: model_name of get_gemini_response
\* (None when the function returned before choosing); cause: why no model
\* reply came back; reply: what get_gemini_response returned; model_used:
\* what the handler reports
IdleGm == [pc |-> "idle", preferred |-> NoModel, chosen |-> NoModel,
           cause |-> "none", reply |-> <<>>, model_used |-> NoModel]

\* a handler is entered with request.json.get('model', None)
GmRequest(preferred_model) ==
    /\ gm.pc \in {"idle", "done"}
    /\ gm' = [IdleGm EXCEPT !.pc = "generate", !.preferred = preferred_model]
    /\ UNCHANGED <<textVars, gemini_enabled, dbVars, req, gm_available, gm_list_fails,
                   stVars, selVars, recVars>>

\* ai_response = get_gemini_response(user_input, context, preferred_model)
GmGenerate(call) ==
    /\ gm.pc = "generate"
    /\ LET model_name == IF gm.preferred # NoModel /\ is_valid_gemini_model(gm.preferred)
                         THEN gm.preferred ELSE get_best_gemini_model
           outcome == IF model_name = NoModel THEN Raised ELSE call
       IN  gm' = [gm EXCEPT
                    !.pc = "report",
                    !.chosen = IF gemini_enabled THEN model_name ELSE NoModel,
                    !.cause = IF ~gemini_enabled THEN "disabled"
                              ELSE IF model_name = NoModel THEN "no_model"
                              ELSE IF call.raised THEN "call_failed" ELSE "none",
                    !.reply = get_gemini_response(outcome)]
    /\ UNCHANGED <<textVars, gemini_enabled, dbVars, req, gm_available, gm_list_fails,
                   stVars, selVars, recVars>>

\* model_used = preferred_model if is_valid_gemini_model(preferred_model)
\*              else get_best_gemini_model()
GmReport_EchoPreferred ==
    /\ gm.pc = "report"
    /\ gm' = [gm EXCEPT !.pc = "done", !.model_used = gm.preferred]
    /\ UNCHANGED <<textVars, gemini_enabled, dbVars, req, gm_available, gm_list_fails,
                   stVars, selVars, recVars>>

GmReport ==
    /\ gm.pc = "report"
    /\ gm' = [gm EXCEPT
                !.pc = "done",
                !.model_used = IF is_valid_gemini_model(gm.preferred)
                               THEN gm.preferred ELSE get_best_gemini_model]
    /\ UNCHANGED <<textVars, gemini_enabled, dbVars, req, gm_available, gm_list_fails,
                   stVars, selVars, recVars>>

\* the backend's answer to list_models changes: models come and go, the
\* listing starts or stops failing
GmAvailabilityChanges(available, fails) ==
    /\ <<available, fails>> # <<gm_available, gm_list_fails>>
    /\ gm_available' = available
    /\ gm_list_fails' = fails
    /\ UNCHANGED <<textVars, gemini_enabled, dbVars, req, gm, stVars, selVars, recVars>>

\* ================================================================= storage
\* everything the model has outside the storage layer
appVars == <<textVars, gemini_enabled, dbVars, req, gmVars, recVars>>

\* secure_filename(filename), on keys made of letters, spaces, "_", "." and
\* "/": path separators become spaces, "_".join(filename.split()) drops the
\* outer whitespace and turns each inner run into one "_", and strip("._")
\* drops the outer dots and underscores (none of these characters is removed
\* by the ASCII filter)
RECURSIVE JoinWords(_)
JoinWords(s) ==
    IF s = <<>> THEN <<>>
    ELSE IF IsSpace(s[1]) THEN <<"_">> \o JoinWords(DropFirst(s, SkipWs(s, 1) - 1))
    ELSE <<s[1]>> \o JoinWords(DropFirst(s, 1))

RECURSIVE StripDots(_)
StripDots(s) ==
    IF s = <<>> THEN s
    ELSE IF s[1] \in {".", "_"} THEN StripDots(DropFirst(s, 1))
    ELSE IF s[Len(s)] \in {".", "_"} THEN StripDots(DropLast(s, 1))
    ELSE s

secure_filename_NoDots(filename) ==
    SelectSeq(filename, LAMBDA t : t # ".")

secure_filename(filename) ==
    StripDots(JoinWords(Strip(ReplaceTok(filename, "/", " "))))

\* the keys callers use, the names files are stored under, the contents
KeyInputs == {<<"a">>, <<"a", " ", "b">>, <<"a", "_", "b">>}
Names == KeyInputs \cup {secure_filename(k) : k \in KeyInputs}
Contents == {<<"x">>, <<"x", "y">>}
Absent == <<"absent">>
NoSize == -1
EmptyStore == [n \in Names |-> Absent]

\* what an operation returned: ok is 'success' or the boolean returned,
\* filename and size are those of upload_file's dict, size that of
\* get_file_size (NoSize for None), content what a read delivered
StResult(ok, filename, size, content) ==
    [ok |-> ok, filename |-> filename, size |-> size, content |-> content]

NoLast == [op |-> "none", key |-> <<>>, bytes |-> <<>>, fault |-> FALSE,
           local |-> StResult(FALSE, <<>>, NoSize, <<>>),
           s3 |-> StResult(FALSE, <<>>, NoSize, <<>>)]

Last(op, key, bytes, fault, local, s3) ==
    [op |-> op, key |-> key, bytes |-> bytes, fault |-> fault,
     local |-> local, s3 |-> s3]

\* upload_file(file_obj, filename) on both backends; fault: the S3 call
\* raises ClientError.  The local open() fails on an empty name (the path is
\* the directory).
StUpload(key, bytes, fault) ==
    LET secure_name == secure_filename(key)
        local_ok == secure_name # <<>>
    IN  /\ st_local' = IF local_ok THEN [st_local EXCEPT ![secure_name] = bytes]
                       ELSE st_local
        /\ st_s3' = IF fault THEN st_s3 ELSE [st_s3 EXCEPT ![secure_name] = bytes]
        /\ st_last' = Last("upload", key, bytes, fault,
               IF local_ok THEN StResult(TRUE, secure_name, Len(bytes), <<>>)
               ELSE StResult(FALSE, key, NoSize, <<>>),
               IF fault THEN StResult(FALSE, key, NoSize, <<>>)
               ELSE StResult(TRUE, secure_name, Len(bytes), <<>>))
        /\ UNCHANGED <<appVars, st_urls, selVars>>

\* file_exists(filename)
StExists(key, fault) ==
    /\ st_last' = Last("exists", key, <<>>, fault,
           StResult(st_local[key] # Absent, <<>>, NoSize, <<>>),
           StResult(~fault /\ st_s3[key] # Absent, <<>>, NoSize, <<>>))
    /\ UNCHANGED <<appVars, st_local, st_s3, st_urls, selVars>>

\* get_file_size(filename)
StSize(key, fault) ==
    /\ st_last' = Last("size", key, <<>>, fault,
           StResult(st_local[key] # Absent, <<>>,
                    IF st_local[key] # Absent THEN Len(st_local[key]) ELSE NoSize, <<>>),
           StResult(~fault /\ st_s3[key] # Absent, <<>>,
                    IF ~fault /\ st_s3[key] # Absent THEN Len(st_s3[key]) ELSE NoSize,
                    <<>>))
    /\ UNCHANGED <<appVars, st_local, st_s3, st_urls, selVars>>

\* fetching the bytes: S3StorageService.download_file, and for the local
\* backend the file at the path of the name (send_from_directory / open)
StRead(key, fault) ==
    /\ st_last' = Last("read", key, <<>>, fault,
           StResult(st_local[key] # Absent, <<>>, NoSize,
                    IF st_local[key] # Absent THEN st_local[key] ELSE <<>>),
           StResult(~fault /\ st_s3[key] # Absent, <<>>, NoSize,
                    IF ~fault /\ st_s3[key] # Absent THEN st_s3[key] ELSE <<>>))
    /\ UNCHANGED <<appVars, st_local, st_s3, st_urls, selVars>>

\* delete_file(filename): the local backend removes the file when it is
\* there and returns False when it is not; delete_object of S3 succeeds
\* whether the key is there or not
StDelete(key, fault) ==
    /\ st_local' = [st_local EXCEPT ![key] = Absent]
    /\ st_s3' = IF fault THEN st_s3 ELSE [st_s3 EXCEPT ![key] = Absent]
    /\ st_last' = Last("delete", key, <<>>, fault,
           StResult(st_local[key] # Absent, <<>>, NoSize, <<>>),
           StResult(~fault, <<>>, NoSize, <<>>))
    /\ UNCHANGED <<appVars, st_urls, selVars>>

\* ExpiresIn of the presigned URL, in seconds; 0 stands for a URL that
\* carries no expiry
URL_EXPIRES == 3600

\* S3StorageService.get_file_url(filename): the presigned URL, or, when
\* generate_presigned_url raises, the direct URL of the object
StGetUrl(key, presign_raises) ==
    /\ Cardinality(st_urls) < MaxUrls
    /\ st_urls' = st_urls \cup
           {[name |-> key, signed |-> ~presign_raises,
             expires_in |-> IF presign_raises THEN 0 ELSE URL_EXPIRES]}
    /\ st_last' = Last("url", key, <<>>, presign_raises,
           StResult(TRUE, key, NoSize, <<>>), StResult(TRUE, key, NoSize, <<>>))
    /\ UNCHANGED <<appVars, st_local, st_s3, selVars>>

\* ------------------------------------------------------ get_storage_service
\* create_storage_service(use_s3): reads the credentials again
create_storage_service(use_s3) ==
    IF use_s3 /\ env_creds THEN "s3" ELSE "local"

IdleSel == [pc |-> "idle", use_s3 |-> FALSE, got |-> "None"]

\* "if storage_service is None:"
SelCheck(r) ==
    /\ sel[r].pc = "idle"
    /\ sel' = [sel EXCEPT ![r].pc =
                  IF storage_service = "None" THEN "read_env" ELSE "return"]
    /\ UNCHANGED <<appVars, stVars, env_creds, storage_service, sel_first>>

\* use_s3 = bool(os.environ.get(...) and os.environ.get(...))
SelReadEnv(r) ==
    /\ sel[r].pc = "read_env"
    /\ sel' = [sel EXCEPT ![r].pc = "create", ![r].use_s3 = env_creds]
    /\ UNCHANGED <<appVars, stVars, env_creds, storage_service, sel_first>>

\* storage_service = create_storage_service(use_s3=use_s3, ...)
SelCreate(r) ==
    /\ sel[r].pc = "create"
    /\ storage_service' = create_storage_service(sel[r].use_s3)
    /\ sel' = [sel EXCEPT ![r].pc = "return"]
    /\ UNCHANGED <<appVars, stVars, env_creds, sel_first>>

\* "return storage_service"
SelReturn(r) ==
    /\ sel[r].pc = "return"
    /\ sel' = [sel EXCEPT ![r].pc = "done", ![r].got = storage_service]
    /\ sel_first' = IF sel_first = "None" THEN storage_service ELSE sel_first
    /\ UNCHANGED <<appVars, stVars, env_creds, storage_service>>

\* the thread serves its next request and calls get_storage_service again
SelAgain(r) ==
    /\ sel[r].pc = "done"
    /\ sel' = [sel EXCEPT ![r] = IdleSel]
    /\ UNCHANGED <<appVars, stVars, env_creds, storage_service, sel_first>>

\* the credentials appear in, or go from, the environment
EnvChanges ==
    /\ env_creds' = ~env_creds
    /\ UNCHANGED <<appVars, stVars, storage_service, sel, sel_first>>

\* ========================================================= voice recordings
\* unique_filename = f"{uuid.uuid4()}{file_extension}": a fresh name made of
\* hex digits and hyphens, a dot and the extension
UniqueNames == {<<"u1", ".", "webm">>, <<"u2", ".", "mp3">>}
RecKeys == UniqueNames \cup {secure_filename(k) : k \in UniqueNames}

\* what the speech-to-text service can return as 'text'
SttTexts == {<<"salam">>, <<"hello">>, <<>>}

\* what requests.post does: status 200 with a JSON body, another status, the
\* 60 s timeout, a connection error, status 200 with a body that is no JSON
SttOutcomes ==
    {[kind |-> "ok", text |-> t] : t \in SttTexts}
        \cup {[kind |-> k, text |-> <<>>] :
                 k \in {"http_error", "timeout", "network", "bad_json"}}

\* convert_audio_to_transcript(audio_file_path): the dict it returns, and
\* whether requests.post was called
convert_audio_to_transcript_Lenient(enabled, file_exists, outcome) ==
    IF enabled /\ file_exists
    THEN [success |-> TRUE, text |-> outcome.text, called |-> TRUE, error |-> ""]
    ELSE [success |-> FALSE, text |-> <<>>, called |-> FALSE,
          error |-> "Audio file not found"]

convert_audio_to_transcript(enabled, file_exists, outcome) ==
    IF ~enabled
    THEN [success |-> FALSE, text |-> <<>>, called |-> FALSE,
          error |-> "ElevenLabs API key not configured"]
    ELSE IF ~file_exists
    THEN [success |-> FALSE, text |-> <<>>, called |-> FALSE,
          error |-> "Audio file not found"]
    ELSE IF outcome.kind = "ok"
    THEN [success |-> TRUE, text |-> outcome.text, called |-> TRUE,
          error |-> ""]
    ELSE [success |-> FALSE, text |-> <<>>, called |-> TRUE,
          error |-> IF outcome.kind = "http_error" THEN "ElevenLabs API error"
                    ELSE IF outcome.kind = "timeout" THEN "Request timeout"
                    ELSE IF outcome.kind = "network" THEN "Network error"
                    ELSE "Unexpected error"]

NoTrResp == [status |-> 0, success |-> FALSE, cached |-> FALSE,
             transcript |-> <<>>, message |-> ""]
TrResp(status, success, cached, transcript, message) ==
    [status |-> status, success |-> success, cached |-> cached,
     transcript |-> transcript, message |-> message]

\* a worker's request: op is "upload" or "transcript", target the voice note
\* or the recording, filename the unique name, bytes the uploaded stream,
\* temp the temporary file it made (0: none), path_exists whether
\* audio_file_path names a file, stt_calls the calls of requests.post so far
IdleTr == [pc |-> "idle", op |-> "none", target |-> 0, filename |-> <<>>,
           bytes |-> <<>>, temp |-> 0, text |-> <<>>, stt_calls |-> 0,
           resp |-> NoTrResp]

\* the request is over: its locals go, its response and its count of
\* speech-to-text calls stay
TrFinished(q, resp) ==
    [IdleTr EXCEPT !.stt_calls = q.stt_calls, !.resp = resp]

RecInFlight == Cardinality({r \in Workers : tr[r].pc \in {"up_put", "up_commit"}})

\* VoiceNote lookup of upload_voice_recording: first_or_404 on the live rows
\* inside try, the unfiltered query in "except Exception"
UploadNoteFound(note_id) == note_id \in DOMAIN voice_notes

FreshNames ==
    UniqueNames \ ({recordings[i].filename : i \in 1..Len(recordings)}
                       \cup {tr[r].filename : r \in Workers})

\* upload_voice_recording, up to the unique name: NotFound of the second
\* lookup is caught by the outer "except Exception" (500); without a file
\* in the request the answer is 400
UpLookup(r, note_id, has_file, bytes) ==
    /\ tr[r].pc = "idle"
    /\ Len(recordings) + RecInFlight < MaxRecordings
    /\ LET q == [IdleTr EXCEPT !.op = "upload", !.target = note_id]
       IN  IF ~UploadNoteFound(note_id)
           THEN tr' = [tr EXCEPT ![r] =
                    TrFinished(q, TrResp(500, FALSE, FALSE, <<>>, "error"))]
           ELSE IF ~has_file
           THEN tr' = [tr EXCEPT ![r] =
                    TrFinished(q, TrResp(400, FALSE, FALSE, <<>>, "no audio file"))]
           ELSE \E name \in FreshNames :
                    tr' = [tr EXCEPT ![r] =
                        [q EXCEPT !.pc = "up_put", !.filename = name,
                                  !.bytes = bytes]]
    /\ UNCHANGED <<textVars, gemini_enabled, dbVars, req, gmVars, stVars, selVars,
                   rec_env, recordings, vn_updated, rec_objects, tmp_files>>

\* storage.upload_file(audio_file.stream, unique_filename): both backends
\* store the stream under secure_filename(filename) and report 'success';
\* when the write raises nothing is stored and 'success' is False, and the
\* handler answers 500
UpPut(r, fault) ==
    /\ tr[r].pc = "up_put"
    /\ LET q == tr[r]
           secure_name == secure_filename(q.filename)
       IN  IF fault
           THEN /\ tr' = [tr EXCEPT ![r] =
                       TrFinished(q, TrResp(500, FALSE, FALSE, <<>>, "upload failed"))]
                /\ UNCHANGED rec_objects
           ELSE /\ rec_objects' = [rec_objects EXCEPT ![secure_name] = q.bytes]
                /\ tr' = [tr EXCEPT ![r].pc = "up_commit"]
    /\ UNCHANGED <<textVars, gemini_enabled, dbVars, req, gmVars, stVars, selVars,
                   rec_env, recordings, vn_updated, tmp_files>>

NewRecording(q) ==
    [voice_note_id |-> q.target, filename |-> q.filename,
     file_size |-> Len(q.bytes), transcription |-> <<>>]

\* db.session.add(recording); voice_note.updated_at = ...; db.session.commit():
\* the row and the timestamp are committed together, or the commit raises,
\* the session is rolled back and the answer is 500
UpCommit(r, fails) ==
    /\ tr[r].pc = "up_commit"
    /\ writer = 0
    /\ LET q == tr[r]
       IN  IF fails
           THEN /\ tr' = [tr EXCEPT ![r] =
                       TrFinished(q, TrResp(500, FALSE, FALSE, <<>>, "error"))]
                /\ UNCHANGED <<recordings, vn_updated>>
           ELSE /\ recordings' = Append(recordings, NewRecording(q))
                /\ vn_updated' = [vn_updated EXCEPT ![q.target] = @ + 1]
                /\ tr' = [tr EXCEPT ![r] =
                       TrFinished(q, TrResp(200, TRUE, FALSE, <<>>, "uploaded"))]
    /\ UNCHANGED <<textVars, gemini_enabled, dbVars, req, gmVars, stVars, selVars,
                   rec_env, rec_objects, tmp_files>>

\* ------------------------------------------------------- generate_transcript
FreshTemps == (1..MaxTemps) \ tmp_files

\* the recording is looked up (NotFound of get_or_404 is caught by the outer
\* "except Exception": 500); a recording with a transcription is answered
\* from the row; otherwise the S3 backend gets a NamedTemporaryFile
\* (delete=False) and the local backend the path under UPLOAD_FOLDER
TrLookup(r, recording_id) ==
    /\ tr[r].pc = "idle"
    /\ FreshTemps # {}
    /\ LET q == [IdleTr EXCEPT !.op = "transcript", !.target = recording_id]
       IN  IF recording_id \notin 1..Len(recordings)
           THEN /\ tr' = [tr EXCEPT ![r] =
                       TrFinished(q, TrResp(500, FALSE, FALSE, <<>>, "error"))]
                /\ UNCHANGED tmp_files
           ELSE IF recordings[recording_id].transcription # <<>>
           THEN /\ tr' = [tr EXCEPT ![r] =
                       TrFinished(q, TrResp(200, TRUE, TRUE,
                                  recordings[recording_id].transcription, "cached"))]
                /\ UNCHANGED tmp_files
           ELSE IF rec_env.backend = "s3"
           THEN \E t \in FreshTemps :
                    /\ tmp_files' = tmp_files \cup {t}
                    /\ tr' = [tr EXCEPT ![r] =
                           [q EXCEPT !.pc = "tr_download", !.temp = t,
                                     !.filename = recordings[recording_id].filename]]
           ELSE /\ tr' = [tr EXCEPT ![r] =
                       [q EXCEPT !.pc = "tr_stt",
                                 !.filename = recordings[recording_id].filename]]
                /\ UNCHANGED tmp_files
    /\ UNCHANGED <<textVars, gemini_enabled, dbVars, req, gmVars, stVars, selVars,
                   rec_env, recordings, vn_updated, rec_objects>>

\* storage.download_file(recording.filename, temp_path): False when the
\* object is not there or the transfer raises, and then the handler returns
\* 500 at once
TrDownload(r, fault) ==
    /\ tr[r].pc = "tr_download"
    /\ LET q == tr[r]
           ok == ~fault /\ rec_objects[q.filename] # Absent
       IN  IF ok
           THEN tr' = [tr EXCEPT ![r].pc = "tr_stt"]
           ELSE tr' = [tr EXCEPT ![r] =
                       TrFinished(q, TrResp(500, FALSE, FALSE, <<>>, "download failed"))]
    /\ UNCHANGED <<textVars, gemini_enabled, dbVars, req, gmVars, stVars, selVars,
                   rec_env, recordings, vn_updated, rec_objects, tmp_files>>

\* "finally": the temporary file is removed when S3 was used
RemoveTemp(q) == IF q.temp # 0 THEN tmp_files \ {q.temp} ELSE tmp_files

\* result = convert_audio_to_transcript(audio_file_path); a failure is
\* answered with 500 and the error after the "finally"
TrStt(r, outcome) ==
    /\ tr[r].pc = "tr_stt"
    /\ LET q == tr[r]
           file_exists == IF q.temp # 0 THEN q.temp \in tmp_files
                          ELSE rec_objects[q.filename] # Absent
           result == convert_audio_to_transcript(rec_env.stt_enabled,
                                                 file_exists, outcome)
           calls == q.stt_calls + (IF result.called THEN 1 ELSE 0)
       IN  IF result.success
           THEN /\ tr' = [tr EXCEPT ![r] =
                       [q EXCEPT !.pc = "tr_save", !.text = result.text,
                                 !.stt_calls = calls]]
                /\ UNCHANGED tmp_files
           ELSE /\ tr' = [tr EXCEPT ![r] =
                       TrFinished([q EXCEPT !.stt_calls = calls],
                           TrResp(500, FALSE, FALSE, <<>>, result.error))]
                /\ tmp_files' = RemoveTemp(q)
    /\ UNCHANGED <<textVars, gemini_enabled, dbVars, req, gmVars, stVars, selVars,
                   rec_env, recordings, vn_updated, rec_objects>>

\* recording.transcription = result['text']; db.session.commit(); the
\* "finally" runs on the way out; when the commit raises the outer
\* "except Exception" rolls back and answers 500
TrSave(r, fails) ==
    /\ tr[r].pc = "tr_save"
    /\ writer = 0
    /\ LET q == tr[r]
       IN  IF fails
           THEN /\ tr' = [tr EXCEPT ![r] =
                       TrFinished(q, TrResp(500, FALSE, FALSE, <<>>, "error"))]
                /\ UNCHANGED recordings
           ELSE /\ recordings' = [recordings EXCEPT ![q.target].transcription = q.text]
                /\ tr' = [tr EXCEPT ![r] =
                       TrFinished(q, TrResp(200, TRUE, FALSE, q.text, "transcribed"))]
    /\ tmp_files' = RemoveTemp(tr[r])
    /\ UNCHANGED <<textVars, gemini_enabled, dbVars, req, gmVars, stVars, selVars,
                   rec_env, vn_updated, rec_objects>>

\* ========================================================== specifications
TextIdle ==
    /\ tx_reply = <<>>
    /\ tx_out = <<>>
    /\ tx_prev = <<>>
    /\ tx_op = "none"
    /\ tx_calls = 0

\* the database after two notions and two voice notes were created, no
\* request being served
GmIdle ==
    /\ gm_available = Models
    /\ gm_list_fails = FALSE
    /\ gm = IdleGm

StIdle ==
    /\ st_local = EmptyStore
    /\ st_s3 = EmptyStore
    /\ st_last = NoLast
    /\ st_urls = {}

SelIdle ==
    /\ storage_service = "None"
    /\ sel = [r \in Workers |-> IdleSel]
    /\ sel_first = "None"

RecIdle ==
    /\ rec_env = [backend |-> "local", stt_enabled |-> TRUE]
    /\ recordings = <<>>
    /\ vn_updated = [n \in NoteIds |-> 0]
    /\ rec_objects = [k \in RecKeys |-> Absent]
    /\ tmp_files = {}
    /\ tr = [r \in Workers |-> IdleTr]

DbInit ==
    /\ notions = [n \in NotionIds |->
                     [content_html |-> <<WELCOME_HTML>>, deleted |-> FALSE]]
    /\ chats = <<>>
    /\ voice_notes = [n \in NoteIds |-> [deleted |-> FALSE]]
    /\ summaries = <<>>
    /\ writer = 0
    /\ pending = NoImage
    /\ req = [r \in Workers |-> IdleReq]

\* --- the text functions alone
InitText == TextInit /\ gemini_enabled = TRUE /\ DbInit /\ GmIdle
    /\ StIdle /\ SelIdle /\ RecIdle /\ env_creds = FALSE
NextText ==
    \/ TextExtract
    \/ TextExtractRaises
    \/ TextNormalize
SpecText == InitText /\ [][NextText]_vars

\* --- the request handlers on two worker threads, over one database
InitRequests == TextIdle /\ gemini_enabled \in BOOLEAN /\ DbInit /\ GmIdle
    /\ StIdle /\ SelIdle /\ RecIdle /\ env_creds = FALSE
NextSummary ==
    \/ \E r \in Workers, n \in NoteIds \cup {MissingId} : SumLookup(r, n, <<"anon">>)
    \/ \E r \in Workers, o \in SummaryOutcomes : SumGenerate(r, o)
    \/ \E r \in Workers : SumFlip(r)
    \/ \E r \in Workers : SumFlipBusy(r)
    \/ \E r \in Workers : SumCommit(r)
    \/ \E n \in NoteIds : DeleteVoiceNote(n)
SpecSummary == InitRequests /\ [][NextSummary]_vars

\* --- summary requests one at a time: a request arrives only when no other
\* is being served
AllIdle == \A q \in Workers : req[q].pc = "idle"
NextSummarySerial ==
    \/ \E r \in Workers, n \in NoteIds \cup {MissingId} :
           AllIdle /\ SumLookup(r, n, <<"anon">>)
    \/ \E r \in Workers, o \in SummaryOutcomes : SumGenerate(r, o)
    \/ \E r \in Workers : SumFlip(r)
    \/ \E r \in Workers : SumCommit(r)
    \/ \E n \in NoteIds : DeleteVoiceNote(n)
SpecSummarySerial == InitRequests /\ [][NextSummarySerial]_vars

\* --- concurrent chat requests
NextChat ==
    \/ \E r \in Workers, n \in NotionIds \cup {MissingId}, m \in Instructions :
           ChatLookup(r, n, m)
    \/ \E r \in Workers :
           \E o \in ChatOutcomes(req[r].base, req[r].message) : ChatGenerate(r, o)
    \/ \E r \in Workers : ChatFlush(r)
    \/ \E r \in Workers : ChatFlushBusy(r)
    \/ \E r \in Workers : ChatCommit(r)
    \/ \E n \in NotionIds : DeleteNotion(n)
    \/ \E r \in Workers, n \in NotionIds \cup {MissingId} : edit_smart_notion(r, n)
SpecChat == InitRequests /\ [][NextChat]_vars

\* --- model selection: one generation request at a time, the backend's
\* list of models changing at any moment
InitModel ==
    /\ TextIdle /\ DbInit
    /\ gemini_enabled \in BOOLEAN
    /\ gm_available \in SUBSET Models
    /\ gm_list_fails \in BOOLEAN
    /\ gm = IdleGm
    /\ StIdle /\ SelIdle /\ RecIdle /\ env_creds = FALSE
NextModel ==
    \/ \E p \in PreferredInputs : GmRequest(p)
    \/ \E c \in CallOutcomes : GmGenerate(c)
    \/ GmReport
    \/ \E a \in SUBSET Models, f \in BOOLEAN : GmAvailabilityChanges(a, f)
SpecModel == InitModel /\ [][NextModel]_vars

\* --- the same, the list of models changing only between requests
GmBetweenRequests == gm.pc \in {"idle", "done"}
NextModelStable ==
    \/ \E p \in PreferredInputs : GmRequest(p)
    \/ \E c \in CallOutcomes : GmGenerate(c)
    \/ GmReport
    \/ \E a \in SUBSET Models, f \in BOOLEAN :
           GmBetweenRequests /\ GmAvailabilityChanges(a, f)
SpecModelStable == InitModel /\ [][NextModelStable]_vars

\* --- the two storage backends, given the same operations side by side
InitStorage ==
    /\ TextIdle /\ DbInit /\ GmIdle /\ gemini_enabled = TRUE
    /\ StIdle /\ SelIdle /\ RecIdle /\ env_creds = TRUE
NextStorage ==
    \/ \E k \in KeyInputs, b \in Contents, f \in BOOLEAN : StUpload(k, b, f)
    \/ \E k \in Names, f \in BOOLEAN : StExists(k, f)
    \/ \E k \in Names, f \in BOOLEAN : StSize(k, f)
    \/ \E k \in Names, f \in BOOLEAN : StRead(k, f)
    \/ \E k \in Names, f \in BOOLEAN : StDelete(k, f)
    \/ \E k \in Names, f \in BOOLEAN : StGetUrl(k, f)
SpecStorage == InitStorage /\ [][NextStorage]_vars

\* --- the choice of the backend: get_storage_service on two worker threads
InitSelect ==
    /\ TextIdle /\ DbInit /\ GmIdle /\ gemini_enabled = TRUE
    /\ StIdle /\ SelIdle /\ RecIdle /\ env_creds \in BOOLEAN
NextSelect ==
    \/ \E r \in Workers : SelCheck(r)
    \/ \E r \in Workers : SelReadEnv(r)
    \/ \E r \in Workers : SelCreate(r)
    \/ \E r \in Workers : SelReturn(r)
    \/ \E r \in Workers : SelAgain(r)
    \/ EnvChanges
SpecSelect == InitSelect /\ [][NextSelect]_vars

\* --- uploads of recordings, concurrently, on either backend
InitUpload ==
    /\ TextIdle /\ DbInit /\ GmIdle /\ gemini_enabled = TRUE
    /\ StIdle /\ SelIdle /\ env_creds = FALSE
    /\ rec_env \in [backend : {"local", "s3"}, stt_enabled : {TRUE}]
    /\ recordings = <<>>
    /\ vn_updated = [n \in NoteIds |-> 0]
    /\ rec_objects = [k \in RecKeys |-> Absent]
    /\ tmp_files = {}
    /\ tr = [r \in Workers |-> IdleTr]
NextUpload ==
    \/ \E r \in Workers, n \in NoteIds \cup {MissingId}, h \in BOOLEAN, b \in Contents :
           UpLookup(r, n, h, b)
    \/ \E r \in Workers, f \in BOOLEAN : UpPut(r, f)
    \/ \E r \in Workers, f \in BOOLEAN : UpCommit(r, f)
SpecUpload == InitUpload /\ [][NextUpload]_vars

\* --- transcript requests, concurrently, on either backend, after two
\* recordings were uploaded to voice note 1
Uploaded ==
    <<[voice_note_id |-> 1, filename |-> <<"u1", ".", "webm">>,
       file_size |-> 1, transcription |-> <<>>],
      [voice_note_id |-> 1, filename |-> <<"u2", ".", "mp3">>,
       file_size |-> 2, transcription |-> <<>>]>>
InitTranscribe ==
    /\ TextIdle /\ DbInit /\ GmIdle /\ gemini_enabled = TRUE
    /\ StIdle /\ SelIdle /\ env_creds = FALSE
    /\ rec_env \in [backend : {"local", "s3"}, stt_enabled : BOOLEAN]
    /\ recordings = Uploaded
    /\ vn_updated = [n \in NoteIds |-> IF n = 1 THEN 2 ELSE 0]
    /\ rec_objects = [k \in RecKeys |->
                         IF k = <<"u1", ".", "webm">> THEN <<"x">> ELSE <<"x", "y">>]
    /\ tmp_files = {}
    /\ tr = [r \in Workers |-> IdleTr]
NextTranscribe ==
    \/ \E r \in Workers, i \in 1..Len(Uploaded) + 1 : TrLookup(r, i)
    \/ \E r \in Workers, f \in BOOLEAN : TrDownload(r, f)
    \/ \E r \in Workers, o \in SttOutcomes : TrStt(r, o)
    \/ \E r \in Workers, f \in BOOLEAN : TrSave(r, f)
SpecTranscribe == InitTranscribe /\ [][NextTranscribe]_vars

\* --- chat requests on notions that have conversations of earlier sessions
\* (the n-th earlier row belongs to the notion the pattern names at n)
EarlierMessages == <<"m1", "m2", "m3", "m4", "m5", "m6", "m7", "m8">>
EarlierPatterns ==
    {<<>>, <<1, 1, 1>>, <<1, 1, 1, 1, 1>>, <<1, 1, 1, 1, 1, 1>>,
     <<1, 2, 1, 1, 2, 1, 1, 1>>, <<2, 1, 1, 1, 1, 1, 1, 2>>}
Earlier(p) ==
    [i \in 1..Len(p) |->
        [notion_id |-> p[i], user_message |-> <<EarlierMessages[i]>>,
         ai_response |-> <<"done">>]]
InitHistory ==
    /\ TextIdle /\ GmIdle /\ gemini_enabled = TRUE
    /\ StIdle /\ SelIdle /\ RecIdle /\ env_creds = FALSE
    /\ notions = [n \in NotionIds |->
                     [content_html |-> <<WELCOME_HTML>>, deleted |-> FALSE]]
    /\ chats \in {Earlier(p) : p \in EarlierPatterns}
    /\ voice_notes = [n \in NoteIds |-> [deleted |-> FALSE]]
    /\ summaries = <<>>
    /\ writer = 0
    /\ pending = NoImage
    /\ req = [r \in Workers |-> IdleReq]
NextHistory ==
    \/ \E r \in Workers, n \in NotionIds, m \in Instructions : ChatLookup(r, n, m)
    \/ \E r \in Workers :
           \E o \in ChatOutcomes(req[r].base, req[r].message) : ChatGenerate(r, o)
    \/ \E r \in Workers : ChatFlush(r)
    \/ \E r \in Workers : ChatFlushBusy(r)
    \/ \E r \in Workers : ChatCommit(r)
SpecHistory == InitHistory /\ [][NextHistory]_vars

\* --- the network calls: transcript requests on the S3 backend and a
\* generation request, with the steps that are sure to happen.  A thread
\* that can run does run (TrSave, GmReport), and requests.post returns
\* because it is given timeout=60 (TrStt).  S3 download_file and
\* generate_content are given no timeout by the code, so nothing in it makes
\* TrDownload or GmGenerate happen; requests arrive or not (TrLookup,
\* GmRequest).
InitCalls ==
    /\ TextIdle /\ DbInit /\ GmIdle /\ gemini_enabled = TRUE
    /\ StIdle /\ SelIdle /\ env_creds = TRUE
    /\ rec_env = [backend |-> "s3", stt_enabled |-> TRUE]
    /\ recordings = Uploaded
    /\ vn_updated = [n \in NoteIds |-> IF n = 1 THEN 2 ELSE 0]
    /\ rec_objects = [k \in RecKeys |->
                         IF k = <<"u1", ".", "webm">> THEN <<"x">> ELSE <<"x", "y">>]
    /\ tmp_files = {}
    /\ tr = [r \in Workers |-> IdleTr]
NextCalls ==
    \/ \E r \in Workers, i \in 1..Len(Uploaded) : TrLookup(r, i)
    \/ \E r \in Workers, f \in BOOLEAN : TrDownload(r, f)
    \/ \E r \in Workers, o \in SttOutcomes : TrStt(r, o)
    \/ \E r \in Workers, f \in BOOLEAN : TrSave(r, f)
    \/ \E p \in {NoModel, FLASH_25} : GmRequest(p)
    \/ \E c \in CallOutcomes : GmGenerate(c)
    \/ GmReport
FairCalls ==
    /\ \A r \in Workers : WF_vars(\E o \in SttOutcomes : TrStt(r, o))
    /\ \A r \in Workers : WF_vars(\E f \in BOOLEAN : TrSave(r, f))
    /\ WF_vars(GmReport)
SpecCalls == InitCalls /\ [][NextCalls]_vars /\ FairCalls

\* ================================================================== claims
CurrentRowsOf(note_id) ==
    {i \in SummaryRowsOf(summaries, note_id) : summaries[i].is_current}

VersionsOf(note_id) ==
    {summaries[i].summary_version : i \in SummaryRowsOf(summaries, note_id)}

\* C1: in every reachable state, whatever the interleaving of summary
\* requests, every voice note has at most one VoiceSummary row with
\* is_current = true.
C1_AtMostOneCurrent ==
    \A n \in NoteIds : Cardinality(CurrentRowsOf(n)) <= 1

\* two requests for one voice note raced (both read the same latest version
\* and both committed) and one row is current
C1_Witness ==
    \E n \in NoteIds : \E i, j \in SummaryRowsOf(summaries, n) :
        /\ i < j
        /\ summaries[i].summary_version = summaries[j].summary_version
        /\ ~summaries[i].is_current
        /\ summaries[j].is_current

\* C2: after N successful commits on a voice note, the summary_version values
\* of its rows are exactly 1..N, no gaps and no repeats, for every
\* interleaving of concurrent commits.
C2_VersionsAreOneToN ==
    \A n \in NoteIds :
        VersionsOf(n) = 1..Cardinality(SummaryRowsOf(summaries, n))

HighestVersion(note_id) ==
    IF VersionsOf(note_id) = {} THEN 0 ELSE SetMax(VersionsOf(note_id))

\* C3: a commit that runs alone on a voice note whose highest version is k
\* (0 when it has no summary) adds exactly one row, with version k + 1 and
\* is_current = true, sets is_current = false on the rows of that voice note
\* that were current, and changes nothing else in any row of any voice note.
C3_SingleCommit ==
    [][\A r \in Workers :
          SumCommit(r) =>
             LET n == req[r].target
                 last == Len(summaries) + 1
             IN  /\ Len(summaries') = last
                 /\ summaries'[last].voice_note_id = n
                 /\ summaries'[last].summary_version = HighestVersion(n) + 1
                 /\ summaries'[last].is_current
                 /\ \A i \in 1..Len(summaries) :
                       summaries'[i] =
                          IF summaries[i].voice_note_id = n /\ summaries[i].is_current
                          THEN [summaries[i] EXCEPT !.is_current = FALSE]
                          ELSE summaries[i]]_vars

\* the scenario of the claim, after the third commit: versions 1 and 2 not
\* current, version 3 current
C3_Witness ==
    \E n \in NoteIds : \E i, j, k \in SummaryRowsOf(summaries, n) :
        /\ summaries[i].summary_version = 1 /\ ~summaries[i].is_current
        /\ summaries[j].summary_version = 2 /\ ~summaries[j].is_current
        /\ summaries[k].summary_version = 3 /\ summaries[k].is_current

\* C4: smart_notion_chat on a notion whose deleted_at is set answers NotFound
\* (and so leaves content_html and the ChatConversation rows as they were).
C4_DeletedIsNotFound ==
    [][\A r \in Workers, n \in NotionIds, m \in Instructions :
          (ChatLookup(r, n, m) /\ notions[n].deleted)
              => (req'[r].pc = "idle" /\ req'[r].resp.status = 404)]_vars

ChatRowsOf(rows, notion_id) == {i \in 1..Len(rows) : rows[i].notion_id = notion_id}

\* the step is the COMMIT of worker r's chat on notion n, as a reader of the
\* committed tables sees it: the content becomes the request's html_content
\* and one row with its message and explanation is appended
VisibleMerge(r, n) ==
    /\ req[r].pc = "chat_commit"
    /\ req[r].target = n
    /\ notions'[n].content_html = req[r].html_content
    /\ chats' = Append(chats, NewConversation(req[r]))

\* C5: the overwrite of content_html and the new ChatConversation row become
\* visible in one step: no step shows a reader new content without the row,
\* or a new row without the content.
C5_ContentAndTurnTogether ==
    [][\A n \in NotionIds :
          (\/ notions'[n].content_html # notions[n].content_html
           \/ ChatRowsOf(chats', n) # ChatRowsOf(chats, n))
              => \E r \in Workers : VisibleMerge(r, n)]_vars

\* a merge is visible: a notion holds generated content and its row is there
C5_Witness ==
    \E n \in NotionIds :
        /\ notions[n].content_html # <<WELCOME_HTML>>
        /\ ChatRowsOf(chats, n) # {}

\* C6: when the merge result has no content, smart_notion_chat changes neither
\* the notion nor the ChatConversation rows and reports failure.
C6_EmptyMergeReportsFailure ==
    [][\A r \in Workers :
          \A o \in ChatOutcomes(req[r].base, req[r].message) :
             LET ex == extract_html_from_response(get_gemini_response(o))
             IN  (ChatGenerate(r, o) /\ ~ex.raised /\ ex.html_content = <<>>)
                     => /\ notions' = notions
                        /\ chats' = chats
                        /\ ~req'[r].resp.success]_vars

\* content that holds only HTML chunks: nothing the normaliser looks at
IsCanonical(t) ==
    \A i \in 1..Len(t) : t[i] \notin {"*", "#", "-", BULLET, " ", NL, ESC_NL}

\* C7: for a live notion and a structured reply with action add and non-empty
\* canonical content C, the commit leaves content_html = C exactly and
\* appends exactly one row, with the instruction and the explanation.
C7_AddStoresExactContent ==
    [][\A r \in Workers :
          LET d == json_loads(StripFences(req[r].ai_response))
              n == req[r].target
          IN  (/\ ChatCommit(r)
               /\ ~notions[n].deleted
               /\ d.ok /\ d.is_object /\ d.action = <<"add">>
               /\ d.html_content # <<>> /\ IsCanonical(d.html_content))
                  => /\ notions'[n].content_html = d.html_content
                     /\ Len(chats') = Len(chats) + 1
                     /\ chats'[Len(chats')].notion_id = n
                     /\ chats'[Len(chats')].user_message = req[r].message
                     /\ EndsWith(chats'[Len(chats')].ai_response, d.explanation)]_vars

\* C8: chats on one notion are serialized: the content a merge was computed
\* from is the content present just before its write.
C8_NoLostUpdate ==
    [][\A r \in Workers :
          ChatCommit(r) => req[r].base = notions[req[r].target].content_html]_vars

\* C9: normalization is idempotent: convert_markdown_to_html applied to its
\* own result returns it unchanged.
C9_Idempotent ==
    (tx_op = "normalize" /\ tx_calls = 2) => tx_out = tx_prev

\* a line still carries an asterisk wrapper (bold or italic): two asterisks
\* with the wrapped text between them
HasAsteriskWrapper(line) ==
    \E i, j \in 1..Len(line) : i < j /\ line[i] = "*" /\ line[j] = "*"

\* a line that starts as a heading of level 1 to 3
IsHeadingLine(line) ==
    \E n \in 1..3 :
        /\ Len(line) >= n + 1
        /\ \A k \in 1..n : line[k] = "#"
        /\ line[n + 1] = " "

NoMarkup(t) ==
    LET ls == SplitLines(t)
    IN  \A i \in 1..Len(ls) :
            /\ ~HasAsteriskWrapper(ls[i])
            /\ ~IsHeadingLine(ls[i])
            /\ ~IsBullet(Strip(ls[i]))

Malformed(reply) ==
    LET d == json_loads(StripFences(reply))
    IN  ~d.ok \/ ~d.is_object

\* C11: for every reply that is not a well-formed structured object,
\* extract_html_from_response raises nothing and returns the raw reply as
\* content (fences removed, normalised) with the synthesized explanation.
C11_MalformedRecovered ==
    (tx_op \in {"extract", "raised"} /\ Malformed(tx_prev))
        => /\ tx_op = "extract"
           /\ tx_out = ExtractFallback(tx_prev).html_content
           /\ extract_html_from_response(tx_prev).explanation
                  = <<FALLBACK_NOTE, DECODE_ERR>>

\* get_gemini_response answered without a reply of the model
GmFailed == gm.pc \in {"report", "done"} /\ gm.cause # "none"

C13_BackendFailureIsFailure ==
    [][\A r \in Workers, o \in SummaryOutcomes :
          (SumGenerate(r, o) /\ (~gemini_enabled \/ o.raised))
              => /\ req'[r].pc = "idle"
                 /\ req'[r].resp.status >= 400
                 /\ ~req'[r].resp.success]_vars

\* the caller's model was rejected: it was named, and get_gemini_response did
\* not choose it or had to take it as the default
GmRejected ==
    /\ gm.pc = "done"
    /\ gm.preferred # NoModel
    /\ gm.cause # "disabled"
    /\ (gm.preferred \notin allowed_models \/ gm.chosen # gm.preferred)

C15_ReportsServingModel ==
    /\ (gm.pc = "done" /\ gm.cause = "none") => gm.model_used = gm.chosen
    /\ (gm.pc = "done" /\ gm.cause = "disabled") => gm.model_used = NoModel

\* what fetching a key must deliver after bytes were put under it
Fetched(op, result, bytes) ==
    /\ result.ok
    /\ op = "read" => result.content = bytes
    /\ op = "size" => result.size = Len(bytes)

\* C16: on both backends, a successful upload_file(bytes, key) followed by a
\* fetch of the same key (read, file_exists, get_file_size) finds the key,
\* with byte-identical content of the same size.
C16_RoundTrip ==
    [][(/\ st_last.op = "upload"
        /\ st_last'.op \in {"read", "exists", "size"}
        /\ st_last'.key = st_last.key
        /\ ~st_last'.fault)
          => /\ st_last.local.ok => Fetched(st_last'.op, st_last'.local, st_last.bytes)
             /\ st_last.s3.ok => Fetched(st_last'.op, st_last'.s3, st_last.bytes)]_vars

\* C17: on both backends delete_file returns true and leaves the key absent,
\* also when the key was not there (so also the second time in a row).
C17_DeleteIdempotent ==
    (st_last.op = "delete" /\ ~st_last.fault)
        => /\ st_last.local.ok
           /\ st_last.s3.ok
           /\ st_local[st_last.key] = Absent
           /\ st_s3[st_last.key] = Absent

\* C18: every URL S3StorageService.get_file_url has returned is a signed URL
\* that expires after 3600 seconds; none is a permanent link.
C18_UrlsAreSignedAndExpire ==
    \A u \in st_urls : u.signed /\ u.expires_in = URL_EXPIRES

\* C19: every finished call of get_storage_service returned the backend the
\* first finished call returned, whatever the interleaving of the calls and
\* the changes of the credentials in the environment.
C19_BackendChosenOnce ==
    \A r \in Workers : sel[r].pc = "done" => sel[r].got = sel_first

\* C20: given the same operation on the same key, the local and the remote
\* backend return the same result at every step (the URL apart), the remote
\* call not failing.
C20_BackendsAgree ==
    (st_last.op \notin {"none", "url"} /\ ~st_last.fault)
        => st_last.local = st_last.s3

\* C21: no notion row is ever removed, and a notion whose deleted_at is set
\* is not in the list view and is not returned by the edit/view route (the
\* chat route is C4).
C21_DeletedIsInvisible ==
    [][/\ DOMAIN notions' = DOMAIN notions
       /\ \A n \in NotionIds : notions[n].deleted => n \notin smart_notion
       /\ \A r \in Workers, n \in NotionIds :
             (edit_smart_notion(r, n) /\ notions[n].deleted)
                 => req'[r].resp.status = 404]_vars

\* C22: generate_voice_note_summary for a voice note that is absent or
\* soft-deleted answers NotFound at once (and so writes nothing).
C22_SummaryOfMissingIsNotFound ==
    [][\A r \in Workers, n \in NoteIds \cup {MissingId} :
          (/\ SumLookup(r, n, <<"anon">>)
           /\ (n \notin DOMAIN voice_notes \/ voice_notes[n].deleted))
              => (req'[r].pc = "idle" /\ req'[r].resp.status = 404)]_vars

\* C23: a VoiceSummary row, once committed, stays in the table with the same
\* voice note, version, content and author; only its is_current flag may
\* change, and only from true to false.
C23_SummaryRowsImmutable ==
    [][/\ Len(summaries') >= Len(summaries)
       /\ \A i \in 1..Len(summaries) :
             /\ summaries'[i] = [summaries[i] EXCEPT
                                    !.is_current = summaries'[i].is_current]
             /\ summaries'[i].is_current => summaries[i].is_current]_vars

\* a voice note has an older row that lost is_current, a still older row that
\* had lost it before, and a newer row that holds it
C23_Witness ==
    \E i, j, k \in 1..Len(summaries) :
        /\ i < j /\ j < k
        /\ summaries[i].voice_note_id = summaries[k].voice_note_id
        /\ summaries[j].voice_note_id = summaries[k].voice_note_id
        /\ ~summaries[i].is_current
        /\ ~summaries[j].is_current
        /\ summaries[k].is_current

\* C28: in every reachable state a voice note that has summary rows has
\* exactly one row with is_current = true, and that row carries the highest
\* summary_version of the voice note's rows.
C28_CurrentIsLatest ==
    \A n \in NoteIds :
        SummaryRowsOf(summaries, n) # {} =>
            /\ Cardinality(CurrentRowsOf(n)) = 1
            /\ \A i \in CurrentRowsOf(n) :
                  summaries[i].summary_version = HighestVersion(n)

\* C24: a transcript request whose speech-to-text call answers with a
\* status other than 200, times out or raises ends at once with status 500,
\* success false and a message; no request makes more than one
\* speech-to-text call; and the failing request leaves every recording's
\* stored transcription as it was.
C24_SttFailureIsReported ==
    [][/\ \A r \in Workers : tr'[r].stt_calls <= 1
       /\ \A r \in Workers, o \in SttOutcomes :
             (o.kind # "ok" /\ TrStt(r, o)) =>
                 /\ tr'[r].pc = "idle"
                 /\ tr'[r].resp.status = 500
                 /\ ~tr'[r].resp.success
                 /\ tr'[r].resp.message # ""
                 /\ recordings' = recordings]_vars

\* a request ended on the timeout of its one speech-to-text call while the
\* other recording has a transcription
C24_Witness ==
    \E r \in Workers :
        /\ tr[r].pc = "idle"
        /\ tr[r].stt_calls = 1
        /\ tr[r].resp.message = "Request timeout"
        /\ \E i \in 1..Len(recordings) : recordings[i].transcription # <<>>
        /\ \E i \in 1..Len(recordings) : recordings[i].transcription = <<>>

\* C26: every temporary file generate_transcript made belongs to a request
\* that is still being served: when a request has ended, whatever its path,
\* its temporary file is gone.
C26_TempFilesRemoved ==
    tmp_files \subseteq {tr[r].temp : r \in {w \in Workers : tr[w].pc # "idle"}}

\* C29: once a recording has a non-empty transcription, no step changes it,
\* no request downloads the recording or calls speech-to-text for it, and a
\* request that arrives for it is answered from the row with cached = true.
C29_TranscriptWriteOnce ==
    [][\A i \in 1..Len(recordings) :
          recordings[i].transcription # <<>> =>
              /\ recordings'[i].transcription = recordings[i].transcription
              /\ \A r \in Workers :
                    /\ (tr[r].target = i /\ tr[r].pc = "tr_stt")
                           => tr'[r].stt_calls = tr[r].stt_calls
                    /\ (tr[r].target = i /\ tr[r].pc = "tr_download")
                           => tr'[r] = tr[r]
                    /\ TrLookup(r, i) =>
                           /\ tr'[r].pc = "idle"
                           /\ tr'[r].resp.cached
                           /\ tr'[r].resp.transcript = recordings[i].transcription]_vars

\* C30: the table gets a row only in the commit of an upload whose put
\* succeeded; a failed put ends the request with no row and no write to the
\* voice note; and every row's filename is a key under which the backend
\* holds an object of the row's size, the uploaded bytes when the row is made.
C30_RowOnlyAfterPut ==
    [][/\ \A r \in Workers :
             UpPut(r, TRUE) =>
                 /\ recordings' = recordings
                 /\ vn_updated' = vn_updated
                 /\ voice_notes' = voice_notes
                 /\ tr'[r].pc = "idle" /\ tr'[r].resp.status = 500
       /\ recordings' # recordings =>
             \E r \in Workers :
                 /\ tr[r].pc = "up_commit"
                 /\ recordings' = Append(recordings, NewRecording(tr[r]))
                 /\ rec_objects[tr[r].filename] = tr[r].bytes
       /\ \A i \in 1..Len(recordings') :
             /\ rec_objects'[recordings'[i].filename] # Absent
             /\ Len(rec_objects'[recordings'[i].filename]) = recordings'[i].file_size]_vars

\* one upload failed at the put and left no row, another one made a row
C30_Witness ==
    /\ Len(recordings) = 1
    /\ \E r \in Workers :
           tr[r].pc = "idle" /\ tr[r].resp.message = "upload failed"

\* C25: every request that waits for a network call gets an answer: a
\* transcript request that was accepted ends, and a generation request that
\* was handed to the backend is reported.
C25_EveryRequestCompletes ==
    /\ \A r \in Workers : (tr[r].pc # "idle") ~> (tr[r].pc = "idle")
    /\ (gm.pc = "generate") ~> (gm.pc = "done")

\* the part of C25 the code does provide: a request that reached the
\* speech-to-text call ends
SttCallReturns ==
    \A r \in Workers : (tr[r].pc = "tr_stt") ~> (tr[r].pc = "idle")

\* the rows of notion n that have fewer than 5 later rows of notion n, in
\* the order of the table
LastFive(n) ==
    LET mine == ChatRowsOf(chats, n)
        keep == {i \in mine : Cardinality({j \in mine : j > i}) < 5}
        Kth(k) == CHOOSE i \in keep : Cardinality({j \in keep : j < i}) = k - 1
    IN  [k \in 1..Cardinality(keep) |-> chats[Kth(k)]]

RECURSIVE TurnsText(_)
TurnsText(convs) ==
    IF convs = <<>> THEN <<>>
    ELSE <<NL, "user: ">> \o Head(convs).user_message
             \o <<NL, "assistant: ">> \o Head(convs).ai_response
             \o TurnsText(Tail(convs))

\* C27: the context a chat request builds is the notion's current content
\* followed by the turns of that notion that have fewer than 5 later turns
\* of that notion (all of them when the notion has at most 5), oldest first;
\* and every step keeps the rows of the table and only adds rows at the end.
C27_ContextIsLastFive ==
    [][/\ Len(chats') >= Len(chats)
       /\ SubSeq(chats', 1, Len(chats)) = chats
       /\ \A r \in Workers, n \in NotionIds, m \in Instructions :
             (ChatLookup(r, n, m) /\ req'[r].pc = "chat_generate") =>
                 req'[r].context =
                     <<"current content:", NL>> \o notions[n].content_html
                         \o (IF LastFive(n) = <<>> THEN <<>>
                             ELSE <<NL, NL, "recent conversation:">>
                                      \o TurnsText(LastFive(n)))]_vars

\* a request is under way on a notion with more than 5 turns, among them one
\* added after the earlier ones, in a table that also holds turns of the
\* other notion
C27_Witness ==
    \E r \in Workers :
        /\ req[r].pc = "chat_generate"
        /\ Cardinality(ChatRowsOf(chats, req[r].target)) > 5
        /\ chats[Len(chats)].notion_id = req[r].target
        /\ chats[Len(chats)].user_message \in Instructions
        /\ \E i \in 1..Len(chats) : chats[i].notion_id # req[r].target
        /\ req[r].context # <<>>

=============================================================================
